---- MODULE Spec2Model ----
(***************************************************************************)
(* Policy actions of spaces-design (src/js/actions/policy.js): installing  *)
(* and removing keyboard and pointer event-policy lists.  An action        *)
(* mutates the policy store, computes the master policy list and hands it  *)
(* to the Photoshop adapter; a failed install of a new list is rolled back *)
(* in the store.                                                           *)
(*                                                                         *)
(* The policy store (js/stores/policy) and the adapter (adapter/ps/ui) are *)
(* not part of policy.js; they are modelled from their documented          *)
(* contracts.                                                              *)
(***************************************************************************)
EXTENDS Integers, Sequences, FiniteSets, TLC

\* Number of action invocations explored.
MaxOps == 3

\* PolicyStore.eventKind
KEYBOARD == "keyboard"
POINTER == "pointer"
eventKind == {KEYBOARD, POINTER}

\* adapterUI.policyAction, adapterUI.keyboardPropagationMode and
\* adapterOS.eventKind.KEY_DOWN
policyAction ==
    [ALWAYS_PROPAGATE |-> "policyAction.ALWAYS_PROPAGATE",
     NEVER_PROPAGATE |-> "policyAction.NEVER_PROPAGATE"]
keyboardPropagationMode ==
    [NEVER_PROPAGATE |-> "keyboardPropagationMode.NEVER_PROPAGATE"]
KEY_DOWN == "eventKind.KEY_DOWN"

\* An event policy: what the KeyboardEventPolicy constructor is given.
KeyboardEventPolicy(action, kind, modifiers, key) ==
    [action |-> action, eventKind |-> kind, modifiers |-> modifiers,
     key |-> key]

NoModifiers == {}

\* Two policies callers install in lists.
ruleX ==
    KeyboardEventPolicy(policyAction.NEVER_PROPAGATE, KEY_DOWN, NoModifiers,
                        "X")
ruleY ==
    KeyboardEventPolicy(policyAction.ALWAYS_PROPAGATE, KEY_DOWN, NoModifiers,
                        "Y")

\* The policy lists callers hand to the add actions.
PolicyInputs == {<<>>, <<ruleX>>, <<ruleY>>, <<ruleX, ruleY>>}

\* The policy lists handed to the add actions when invocations overlap.
OverlapInputs == {<<ruleX>>, <<ruleY>>}

\* The keys and modifiers callers hand to addKeydownPolicy.
KeydownKeys == {"K"}
KeydownModifiers == {{"shift"}}

\* The list IDs callers hand to the remove actions: every ID that can be
\* registered when a remove starts, and so also IDs that are not.
RemoveIds == 1..(MaxOps - 1)

\* The list IDs handed to the remove actions when invocations overlap.
OverlapRemoveIds == 1..(MaxOps - 2)

\* Slots in which an action invocation runs.  The action controller runs
\* one invocation at a time (Slots1); Slots is used when invocations are
\* allowed to overlap.
Slots == {1, 2}
Slots1 == {1}

\* The error the adapter rejects an install call with, the error a failing
\* removePolicyList would throw, and the error of _removePolicies.
InstallError == "ExternalInstallFailed"
RollbackError == "SecondaryRollbackFailed"
NotFoundError == "NotFound"

VARIABLES
    policyLists,        \* store: kind -> (list ID -> policy list)
    policyListCounter,  \* store: kind -> next list ID
    installed,          \* adapter: kind -> the policy list active in Photoshop
    requests,           \* adapter: install calls issued and not yet settled
    task,               \* slot -> the invocation running (or last run) there
    nops,               \* number of invocations so far
    registered,         \* history: kind -> {[id, rules]} added and not removed
    allocated,          \* history: kind -> list IDs in allocation order
    phantom,            \* history: kind -> IDs whose rollback removal threw
    installedIds,       \* history: kind -> IDs of the lists in installed
    startup,            \* beforeStartup: "idle", "pending", "done", "failed"
    defaultMode,        \* adapter: the default keyboard propagation mode
    command,            \* history: slot -> the exported action invoked there
    overlapped,         \* history: an invocation started while one was running
    localOnly           \* history: kind -> IDs removed without commit

vars == <<policyLists, policyListCounter, installed, requests, task, nops,
          registered, allocated, phantom, installedIds, startup,
          defaultMode, command, overlapped, localOnly>>

invocationVars == <<command, overlapped>>

startupVars == <<startup, defaultMode>>

----------------------------------------------------------------------------
\* Helpers

Min(S) == CHOOSE i \in S : \A j \in S : i <= j
Max(S) == CHOOSE i \in S : \A j \in S : j <= i

NoLists == [i \in {} |-> <<>>]

----------------------------------------------------------------------------
\* PolicyStore

\* A store that gives a new list the ID after the highest one registered.
AllocateIDAfterHighest(lists, counter, kind) ==
    IF DOMAIN lists[kind] = {} THEN 1 ELSE Max(DOMAIN lists[kind]) + 1

\* The ID addPolicyList gives the next list of a kind: the kind's counter.
AllocateID(lists, counter, kind) == counter[kind]

addPolicyList(lists, kind, id, policies) ==
    [lists EXCEPT ![kind] =
        [i \in DOMAIN @ \cup {id} |-> IF i = id THEN policies ELSE @[i]]]

\* removePolicyList's effect on the store, and its return value.
removePolicyList(lists, kind, id) ==
    [lists EXCEPT ![kind] = [i \in DOMAIN @ \ {id} |-> @[i]]]

removePolicyListFound(lists, kind, id) == id \in DOMAIN lists[kind]

RECURSIVE ConcatAscending(_, _)
ConcatAscending(m, ids) ==
    IF ids = {} THEN <<>>
    ELSE LET i == Min(ids) IN m[i] \o ConcatAscending(m, ids \ {i})

getMasterPolicyList(lists, kind) ==
    ConcatAscending(lists[kind], DOMAIN lists[kind])

----------------------------------------------------------------------------
\* Invocations

NoTask ==
    [op |-> "none", kind |-> KEYBOARD, id |-> 0, commit |-> FALSE,
     policies |-> <<>>, master |-> <<>>, pre |-> NoLists,
     preInstalled |-> <<>>, stage |-> "idle", outcome |-> "none",
     err |-> "none", ret |-> 0, rollback |-> "none", n |-> 0]

\* What a finished invocation leaves in its slot: the call and its result.
Finished(t, outcome, ret, rollback) ==
    [NoTask EXCEPT !.op = t.op, !.kind = t.kind, !.id = t.id,
                   !.commit = t.commit, !.stage = "done",
                   !.outcome = outcome, !.ret = ret, !.rollback = rollback,
                   !.n = t.n]

CanStart(p) == task[p].stage \in {"idle", "done"} /\ nops < MaxOps

\* The write locks on PS_APP and JS_POLICY: no other invocation is running.
LockFree ==
    /\ \A q \in Slots : task[q].stage \in {"idle", "done"}
    /\ startup # "pending"

\* The adapter's default mode before it is set.
UnsetMode == "unset"

\* A controller that lets actions run whether or not it has started.
StartedAnyTime == TRUE

\* The controller runs the other actions once beforeStartup has resolved.
Started == startup = "done"

\* beforeStartupCommand: the call of adapterUI.setKeyboardPropagationMode.
beforeStartupCommand ==
    /\ startup = "idle"
    /\ startup' = "pending"
    /\ UNCHANGED <<policyLists, policyListCounter, installed, requests, task,
                   nops, registered, allocated, phantom, installedIds,
                   defaultMode, command, overlapped, localOnly>>

\* The adapter sets the default mode of the policy descriptor.
SetModeResolve ==
    /\ startup = "pending"
    /\ defaultMode' = keyboardPropagationMode.NEVER_PROPAGATE
    /\ startup' = "done"
    /\ UNCHANGED <<policyLists, policyListCounter, installed, requests, task,
                   nops, registered, allocated, phantom, installedIds,
                   command, overlapped, localOnly>>

\* The adapter rejects the call: the controller does not start.
SetModeReject ==
    /\ startup = "pending"
    /\ startup' = "failed"
    /\ UNCHANGED <<policyLists, policyListCounter, installed, requests, task,
                   nops, registered, allocated, phantom, installedIds,
                   defaultMode, command, overlapped, localOnly>>

\* The adapter functions that install a master list, and the kind whose
\* active list each replaces.
setKeyboardEventPropagationPolicy == "setKeyboardEventPropagationPolicy"
setPointerEventPropagationPolicy == "setPointerEventPropagationPolicy"

SinkOf(fn) ==
    IF fn = setKeyboardEventPropagationPolicy THEN KEYBOARD ELSE POINTER

\* A dispatch that takes the keyboard function whatever the kind is.
AddCommitFnKeyboard(kind) == setKeyboardEventPropagationPolicy

\* _addPolicies' commitFn.
AddCommitFn(kind) ==
    IF kind = KEYBOARD
    THEN setKeyboardEventPropagationPolicy
    ELSE setPointerEventPropagationPolicy

\* _removePolicies' commitFn.
RemoveCommitFn(kind) ==
    IF kind = KEYBOARD
    THEN setKeyboardEventPropagationPolicy
    ELSE setPointerEventPropagationPolicy

\* A push of the installed list extended by the new list.
AddMasterDelta(before, after, kind) ==
    installed[kind] \o after[kind][Max(DOMAIN after[kind])]

\* A master list computed before the list was added.
AddMasterStale(before, after, kind) == getMasterPolicyList(before, kind)

\* The master list _addPolicies hands to the adapter: computed after the
\* list was added.
AddMaster(before, after, kind) == getMasterPolicyList(after, kind)

\* _addPolicies up to the adapter call.
_addPolicies(p, kind, policies) ==
    /\ CanStart(p)
    /\ LET policyListID == AllocateID(policyLists, policyListCounter, kind)
           lists1 == addPolicyList(policyLists, kind, policyListID, policies)
           masterPolicyList == AddMaster(policyLists, lists1, kind)
       IN /\ policyLists' = lists1
          /\ policyListCounter' = [policyListCounter EXCEPT ![kind] = @ + 1]
          /\ requests' = requests \cup
                {[p |-> p, fn |-> AddCommitFn(kind),
                  list |-> masterPolicyList, ids |-> DOMAIN lists1[kind]]}
          /\ task' = [task EXCEPT ![p] =
                [NoTask EXCEPT !.op = "add", !.kind = kind,
                               !.id = policyListID, !.policies = policies,
                               !.master = masterPolicyList,
                               !.pre = policyLists[kind],
                               !.preInstalled = installed[kind],
                               !.stage = "pending", !.n = nops + 1]]
          /\ registered' = [registered EXCEPT ![kind] =
                @ \cup {[id |-> policyListID, rules |-> policies]}]
          /\ allocated' = [allocated EXCEPT ![kind] = Append(@, policyListID)]
    /\ nops' = nops + 1
    /\ UNCHANGED <<startupVars, localOnly>>
    /\ UNCHANGED <<installed, phantom,
                   installedIds>>

\* The adapter applies an install call: the list replaces the active one.
InstallResolve(r) ==
    /\ r \in requests
    /\ installed' = [installed EXCEPT ![SinkOf(r.fn)] = r.list]
    /\ installedIds' = [installedIds EXCEPT ![SinkOf(r.fn)] = r.ids]
    /\ requests' = requests \ {r}
    /\ task' = [task EXCEPT ![r.p].stage = "resolved"]
    /\ UNCHANGED <<startupVars, invocationVars, localOnly>>
    /\ UNCHANGED <<policyLists, policyListCounter, nops, registered,
                   allocated, phantom>>

\* The adapter rejects an install call: the active list stays.
InstallReject(r) ==
    /\ r \in requests
    /\ requests' = requests \ {r}
    /\ task' = [task EXCEPT ![r.p].stage = "rejected",
                            ![r.p].err = InstallError]
    /\ UNCHANGED <<startupVars, invocationVars, localOnly>>
    /\ UNCHANGED <<policyLists, policyListCounter, installed, nops,
                   registered, allocated, phantom,
                   installedIds>>

\* A catch handler that removes the kind's newest list.
RollbackStoreNewest(lists, kind, id, throws) ==
    IF throws \/ DOMAIN lists[kind] = {} THEN lists
    ELSE removePolicyList(lists, kind, Max(DOMAIN lists[kind]))

\* A catch handler that leaves the store as it is.
RollbackStoreSkipped(lists, kind, id, throws) == lists

\* The catch handler's store effect: the list is removed again, unless
\* removePolicyList throws.
RollbackStore(lists, kind, id, throws) ==
    IF throws THEN lists ELSE removePolicyList(lists, kind, id)

\* A catch handler whose removal is not guarded by try/catch.
CatchErrorUnguarded(err, throws) == IF throws THEN RollbackError ELSE err

\* The error the catch handler rethrows: err, also when the removal threw.
CatchError(err, throws) == err

\* A catch handler that calls the install function again.
AddCatchRetry(p, throws) ==
    /\ task[p].op = "add"
    /\ task[p].stage = "rejected"
    /\ ~throws
    /\ requests' = requests \cup
            {[p |-> p, fn |-> AddCommitFn(task[p].kind),
              list |-> task[p].master,
              ids |-> DOMAIN policyLists[task[p].kind]]}
    /\ task' = [task EXCEPT ![p].stage = "pending", ![p].err = "none"]
    /\ UNCHANGED <<startupVars, invocationVars, localOnly>>
    /\ UNCHANGED <<policyLists, policyListCounter, installed, nops,
                   registered, allocated, phantom, installedIds>>

\* _addPolicies' catch handler.
AddCatch(p, throws) ==
    /\ task[p].op = "add"
    /\ task[p].stage = "rejected"
    /\ LET t == task[p]
           found == removePolicyListFound(policyLists, t.kind, t.id)
       IN /\ policyLists' = RollbackStore(policyLists, t.kind, t.id, throws)
          /\ task' = [task EXCEPT ![p] =
                Finished(t, CatchError(t.err, throws), 0,
                         IF throws THEN "threw"
                         ELSE IF found THEN "removed" ELSE "missing")]
          /\ registered' = [registered EXCEPT ![t.kind] =
                IF throws THEN @ ELSE {e \in @ : e.id # t.id}]
          /\ phantom' = [phantom EXCEPT ![t.kind] =
                IF throws THEN @ \cup {t.id} ELSE @]
    /\ UNCHANGED <<startupVars, invocationVars, localOnly>>
    /\ UNCHANGED <<policyListCounter, installed, requests, nops, allocated,
                   installedIds>>

\* A handler that resolves with the store's next ID.
AddReturnValueNext(t) == t.id + 1

\* The value _addPolicies resolves with.
AddReturnValue(t) == t.id

\* _addPolicies' .return(policyListID).
AddReturn(p) ==
    /\ task[p].op = "add"
    /\ task[p].stage = "resolved"
    /\ task' = [task EXCEPT ![p] =
            Finished(task[p], "ok", AddReturnValue(task[p]), "none")]
    /\ UNCHANGED <<startupVars, invocationVars, localOnly>>
    /\ UNCHANGED <<policyLists, policyListCounter, installed, requests, nops,
                   registered, allocated, phantom,
                   installedIds>>

\* A remove that leaves the store alone until the removal is committed.
RemoveStoreOnCommit(lists, kind, id, commit) ==
    IF commit THEN removePolicyList(lists, kind, id) ELSE lists

\* _removePolicies' store effect: the list is removed, commit or not.
RemoveStore(lists, kind, id, commit) == removePolicyList(lists, kind, id)

\* A remove that does not look at what removePolicyList returned.
RemoveBranchUnchecked(removed, commit) ==
    IF commit THEN "commit" ELSE "resolve"

\* A remove that commits whether asked to or not.
RemoveBranchAlwaysCommit(removed, commit) ==
    IF removed THEN "commit" ELSE "reject"

\* _removePolicies' branches.
RemoveBranch(removed, commit) ==
    IF removed
    THEN IF commit THEN "commit" ELSE "resolve"
    ELSE "reject"

\* A master list computed before the list was removed.
RemoveMasterStale(before, after, kind) == getMasterPolicyList(before, kind)

\* The master list _removePolicies hands to the adapter: computed after the
\* list was removed.
RemoveMaster(before, after, kind) == getMasterPolicyList(after, kind)

\* _removePolicies up to the adapter call, or to its end when none is made.
_removePolicies(p, kind, id, commit) ==
    /\ CanStart(p)
    /\ LET removed == removePolicyListFound(policyLists, kind, id)
           lists1 == RemoveStore(policyLists, kind, id, commit)
           branch == RemoveBranch(removed, commit)
           t == [NoTask EXCEPT !.op = "remove", !.kind = kind, !.id = id,
                               !.commit = commit, !.n = nops + 1]
       IN /\ policyLists' = lists1
          /\ registered' = [registered EXCEPT ![kind] =
                {e \in @ : e.id # id}]
          /\ CASE branch = "commit" ->
                  LET masterPolicyList ==
                            RemoveMaster(policyLists, lists1, kind)
                  IN /\ requests' = requests \cup
                            {[p |-> p, fn |-> RemoveCommitFn(kind),
                              list |-> masterPolicyList,
                              ids |-> DOMAIN lists1[kind]]}
                     /\ localOnly' = localOnly
                     /\ task' = [task EXCEPT ![p] =
                            [t EXCEPT !.master = masterPolicyList,
                                      !.pre = policyLists[kind],
                                      !.preInstalled = installed[kind],
                                      !.stage = "pending"]]
               [] branch = "resolve" ->
                  /\ requests' = requests
                  /\ localOnly' = [localOnly EXCEPT ![kind] = @ \cup {id}]
                  /\ task' = [task EXCEPT ![p] = Finished(t, "ok", 0, "none")]
               [] branch = "reject" ->
                  /\ requests' = requests
                  /\ localOnly' = localOnly
                  /\ task' = [task EXCEPT ![p] =
                        Finished(t, NotFoundError, 0, "none")]
    /\ nops' = nops + 1
    /\ UNCHANGED startupVars
    /\ UNCHANGED <<policyListCounter, installed, allocated, phantom,
                   installedIds>>

\* A committing remove that puts the list back when its install call fails.
SettleStoreUndo(lists, t) ==
    IF t.stage = "rejected" /\ t.id \in DOMAIN t.pre
    THEN addPolicyList(lists, t.kind, t.id, t.pre[t.id])
    ELSE lists

\* The store after a committing remove's adapter call settled: the promise
\* is returned as it is, nothing is undone.
SettleStore(lists, t) == lists

\* The adapter's promise of a committing remove settles.
RemoveSettle(p) ==
    /\ task[p].op = "remove"
    /\ task[p].stage \in {"resolved", "rejected"}
    /\ policyLists' = SettleStore(policyLists, task[p])
    /\ task' = [task EXCEPT ![p] =
            Finished(task[p],
                     IF task[p].stage = "resolved" THEN "ok" ELSE task[p].err,
                     0, "none")]
    /\ UNCHANGED <<startupVars, invocationVars, localOnly>>
    /\ UNCHANGED <<policyListCounter, installed, requests, nops, registered,
                   allocated, phantom,
                   installedIds>>

----------------------------------------------------------------------------
\* Exported actions

\* An exported action is invoked in slot p.
Invoke(p, name) ==
    /\ command' = [command EXCEPT ![p] = name]
    /\ overlapped' =
            (overlapped \/
             \E q \in Slots \ {p} : task[q].stage \notin {"idle", "done"})

addKeyboardPoliciesCommand(p, policies) ==
    /\ _addPolicies(p, KEYBOARD, policies)
    /\ Invoke(p, "addKeyboardPolicies")

removeKeyboardPoliciesCommand(p, id, commit) ==
    /\ _removePolicies(p, KEYBOARD, id, commit)
    /\ Invoke(p, "removeKeyboardPolicies")

addPointerPoliciesCommand(p, policies) ==
    /\ _addPolicies(p, POINTER, policies)
    /\ Invoke(p, "addPointerPolicies")

removePointerPoliciesCommand(p, id, commit) ==
    /\ _removePolicies(p, POINTER, id, commit)
    /\ Invoke(p, "removePointerPolicies")

\* A helper that transfers to the pointer action.
KeydownTransferPointer(p, policies) == _addPolicies(p, POINTER, policies)

\* this.transfer(addKeyboardPolicies, [policy], true): the keyboard command
\* runs in the invocation of addKeydownPolicy.
KeydownTransfer(p, policies) == _addPolicies(p, KEYBOARD, policies)

addKeydownPolicyCommand(p, propagate, key, modifiers) ==
    LET action == IF propagate
                  THEN policyAction.ALWAYS_PROPAGATE
                  ELSE policyAction.NEVER_PROPAGATE
        policy == KeyboardEventPolicy(action, KEY_DOWN, modifiers, key)
    IN /\ KeydownTransfer(p, <<policy>>)
       /\ Invoke(p, "addKeydownPolicy")

----------------------------------------------------------------------------
\* Specifications

Init ==
    /\ policyLists = [k \in eventKind |-> NoLists]
    /\ policyListCounter = [k \in eventKind |-> 1]
    /\ installed = [k \in eventKind |-> <<>>]
    /\ requests = {}
    /\ task = [p \in Slots |-> NoTask]
    /\ nops = 0
    /\ registered = [k \in eventKind |-> {}]
    /\ allocated = [k \in eventKind |-> <<>>]
    /\ phantom = [k \in eventKind |-> {}]
    /\ installedIds = [k \in eventKind |-> {}]
    /\ startup = "idle"
    /\ defaultMode = UnsetMode
    /\ command = [p \in Slots |-> "none"]
    /\ overlapped = FALSE
    /\ localOnly = [k \in eventKind |-> {}]

Startup ==
    \/ LockFree /\ beforeStartupCommand
    \/ SetModeResolve
    \/ SetModeReject

Settle ==
    \/ \E r \in requests : InstallResolve(r)
    \/ \E r \in requests : InstallReject(r)
    \/ \E p \in Slots, throws \in BOOLEAN : AddCatch(p, throws)
    \/ \E p \in Slots : AddReturn(p)
    \/ \E p \in Slots : RemoveSettle(p)

\* Invocations run one at a time, as their write locks declare.
Next ==
    \/ \E p \in Slots1, policies \in PolicyInputs :
            Started /\ LockFree /\ addKeyboardPoliciesCommand(p, policies)
    \/ \E p \in Slots1, policies \in PolicyInputs :
            Started /\ LockFree /\ addPointerPoliciesCommand(p, policies)
    \/ \E p \in Slots1, id \in RemoveIds, commit \in BOOLEAN :
            Started /\ LockFree /\ removeKeyboardPoliciesCommand(p, id, commit)
    \/ \E p \in Slots1, id \in RemoveIds, commit \in BOOLEAN :
            Started /\ LockFree /\ removePointerPoliciesCommand(p, id, commit)
    \/ \E p \in Slots1, propagate \in BOOLEAN, key \in KeydownKeys,
          modifiers \in KeydownModifiers :
            Started /\ LockFree
                /\ addKeydownPolicyCommand(p, propagate, key, modifiers)
    \/ Settle
    \/ Startup

Spec == Init /\ [][Next]_vars

\* The adapter settles an install call that is in flight.
AdapterSettles == \E r \in requests : InstallResolve(r) \/ InstallReject(r)

\* A handler chained on a settled install call runs.
HandlerRuns ==
    \E p \in Slots :
        \/ AddReturn(p)
        \/ RemoveSettle(p)
        \/ \E throws \in BOOLEAN : AddCatch(p, throws)

\* Every install call is settled in the end, and the handlers chained on it
\* are then run.
SpecLive == Spec /\ WF_vars(AdapterSettles) /\ WF_vars(HandlerRuns)

\* Invocations may start while another one's adapter call is in flight.
NextOverlap ==
    \/ \E p \in Slots, policies \in OverlapInputs :
            Started /\ addKeyboardPoliciesCommand(p, policies)
    \/ \E p \in Slots, policies \in OverlapInputs :
            Started /\ addPointerPoliciesCommand(p, policies)
    \/ \E p \in Slots, id \in OverlapRemoveIds, commit \in BOOLEAN :
            Started /\ removeKeyboardPoliciesCommand(p, id, commit)
    \/ \E p \in Slots, id \in OverlapRemoveIds, commit \in BOOLEAN :
            Started /\ removePointerPoliciesCommand(p, id, commit)
    \/ Settle
    \/ Startup

SpecOverlap == Init /\ [][NextOverlap]_vars

----------------------------------------------------------------------------
\* Properties

Quiescent == \A p \in Slots : task[p].stage \in {"idle", "done"}

\* p's add was rejected and its catch handler runs in this step.
AddFails(p) ==
    task[p].op = "add" /\ task[p].stage = "rejected" /\ task'[p].stage = "done"

\* p's add was applied and its promise resolves in this step.
AddSucceeds(p) ==
    task[p].op = "add" /\ task[p].stage = "resolved" /\ task'[p].stage = "done"

\* p starts a remove in this step.
RemoveStarts(p) == task'[p].n # task[p].n /\ task'[p].op = "remove"

\* p's committing remove settles in this step.
RemoveSettles(p) ==
    /\ task[p].op = "remove"
    /\ task[p].stage \in {"resolved", "rejected"}
    /\ task'[p].stage = "done"

\* The rule sequences of a set of [id, rules] entries, highest ID last.
RECURSIVE ExpectedMaster(_)
ExpectedMaster(S) ==
    IF S = {} THEN <<>>
    ELSE LET e == CHOOSE e \in S : \A f \in S : f.id <= e.id
         IN ExpectedMaster(S \ {e}) \o e.rules

RECURSIVE IsSubseq(_, _)
IsSubseq(s, t) ==
    IF s = <<>> THEN TRUE
    ELSE IF t = <<>> THEN FALSE
    ELSE IF Head(s) = Head(t) THEN IsSubseq(Tail(s), Tail(t))
    ELSE IsSubseq(s, Tail(t))

IsSuffix(s, t) ==
    Len(s) <= Len(t) /\ SubSeq(t, Len(t) - Len(s) + 1, Len(t)) = s

LastOf(s) == s[Len(s)]

\* C1: after any sequence of adds and removes, the master policy list of a
\* kind is the concatenation, in ascending list-ID order, of the lists that
\* were added and neither removed nor rolled back, each exactly once.
C1_MasterIsConcatOfRegistered ==
    \A k \in eventKind :
        /\ getMasterPolicyList(policyLists, k) = ExpectedMaster(registered[k])
        /\ \A e, f \in registered[k] : e.id = f.id => e = f

\* Two lists were added to a kind, one of them is gone again, and what is
\* left has rules.
C1_Witness ==
    \E k \in eventKind :
        /\ Quiescent
        /\ Len(allocated[k]) >= 2
        /\ Cardinality(registered[k]) = 1
        /\ getMasterPolicyList(policyLists, k) # <<>>

\* C2: an add whose install call fails and whose rollback removal does not
\* throw returns the install error and leaves the kind's lists as they were
\* before the call, without the rejected list.
C2_FailedAddRestoresStore ==
    [][\A p \in Slots :
        (AddFails(p) /\ task'[p].rollback # "threw") =>
            /\ task'[p].outcome = InstallError
            /\ task'[p].ret = 0
            /\ policyLists'[task[p].kind] = task[p].pre
            /\ task[p].id \notin DOMAIN policyLists'[task[p].kind]
            /\ getMasterPolicyList(policyLists', task[p].kind) =
                    ConcatAscending(task[p].pre, DOMAIN task[p].pre)]_vars

\* A failed add was rolled back in a kind that holds other lists.
C2_Witness ==
    \E p \in Slots :
        /\ task[p].op = "add"
        /\ task[p].stage = "done"
        /\ task[p].outcome = InstallError
        /\ task[p].rollback = "removed"
        /\ policyLists[task[p].kind] # NoLists

\* The lists of a kind whose rollback removal did not fail.
WithoutPhantoms(k) ==
    [policyLists EXCEPT ![k] = [i \in DOMAIN @ \ phantom[k] |-> @[i]]]

\* C3: when invocations run one at a time and none is running, the lists a
\* kind holds are all part of the list installed in the adapter, except the
\* lists whose rollback removal failed.
C3_StoreWithinInstalled ==
    Quiescent =>
        \A k \in eventKind :
            /\ DOMAIN policyLists[k] \ phantom[k] \subseteq installedIds[k]
            /\ IsSubseq(getMasterPolicyList(WithoutPhantoms(k), k),
                        installed[k])

\* A rollback removal failed, so the kind holds a list that is not
\* installed, beside one that is.
C3_Witness ==
    \E k \in eventKind :
        /\ Quiescent
        /\ phantom[k] \cap DOMAIN policyLists[k] # {}
        /\ DOMAIN policyLists[k] \ phantom[k] # {}
        /\ ~(DOMAIN policyLists[k] \subseteq installedIds[k])
        /\ ~IsSubseq(getMasterPolicyList(policyLists, k), installed[k])

\* C4: the list IDs of a kind are allocated in strictly increasing order,
\* and a successful add returns the ID allocated last.
C4_ListIDsIncrease ==
    \A k \in eventKind :
        /\ \A i, j \in 1..Len(allocated[k]) :
                i < j => allocated[k][i] < allocated[k][j]
        /\ \A p \in Slots1 :
                (/\ task[p].op = "add"
                 /\ task[p].stage = "done"
                 /\ task[p].outcome = "ok"
                 /\ task[p].kind = k) => task[p].ret = LastOf(allocated[k])

\* An add returned its ID after the list with the ID before it was gone.
C4_Witness ==
    \E k \in eventKind, p \in Slots1 :
        /\ Len(allocated[k]) >= 2
        /\ allocated[k][Len(allocated[k]) - 1] \notin DOMAIN policyLists[k]
        /\ task[p].op = "add"
        /\ task[p].stage = "done"
        /\ task[p].outcome = "ok"
        /\ task[p].kind = k

\* C5: an add whose install call succeeds returns the list ID it allocated,
\* the list is in the store under that ID, and its rules end the master
\* list; the first keyboard add, of [ruleX], returns 1 with master [ruleX],
\* and a second, of [ruleY], returns 2 with master [ruleX, ruleY].
C5_SuccessfulAdd ==
    [][\A p \in Slots1 :
        AddSucceeds(p) =>
            LET t == task[p]
                m == getMasterPolicyList(policyLists', t.kind)
            IN /\ task'[p].outcome = "ok"
               /\ task'[p].ret = LastOf(allocated[t.kind])
               /\ task'[p].ret \in DOMAIN policyLists'[t.kind]
               /\ policyLists'[t.kind][task'[p].ret] = t.policies
               /\ IsSuffix(t.policies, m)
               /\ (/\ t.kind = KEYBOARD
                   /\ t.pre = NoLists
                   /\ Len(allocated[KEYBOARD]) = 1
                   /\ t.policies = <<ruleX>>)
                    => (task'[p].ret = 1 /\ m = <<ruleX>>)
               /\ (/\ t.kind = KEYBOARD
                   /\ DOMAIN t.pre = {1}
                   /\ t.pre[1] = <<ruleX>>
                   /\ Len(allocated[KEYBOARD]) = 2
                   /\ t.policies = <<ruleY>>)
                    => (task'[p].ret = 2 /\ m = <<ruleX, ruleY>>)]_vars

\* The second keyboard add returned 2 and the master list is [ruleX, ruleY].
C5_Witness ==
    \E p \in Slots1 :
        /\ task[p].op = "add"
        /\ task[p].stage = "done"
        /\ task[p].outcome = "ok"
        /\ task[p].kind = KEYBOARD
        /\ task[p].ret = 2
        /\ allocated[KEYBOARD] = <<1, 2>>
        /\ getMasterPolicyList(policyLists, KEYBOARD) = <<ruleX, ruleY>>

Range(s) == {s[i] : i \in DOMAIN s}

\* C6: a remove of an ID that is not registered in its kind fails with the
\* not-found error at once, issues no install call whatever commit is, and
\* leaves the store and the adapter as they were.
C6_RemoveUnknownId ==
    [][\A p \in Slots1 :
        (/\ RemoveStarts(p)
         /\ task'[p].id \notin DOMAIN policyLists[task'[p].kind]) =>
            /\ task'[p].stage = "done"
            /\ task'[p].outcome = NotFoundError
            /\ requests' = requests
            /\ policyLists' = policyLists
            /\ policyListCounter' = policyListCounter
            /\ installed' = installed]_vars

\* A committing remove of an ID that was allocated and is gone again failed
\* with not-found, in a kind that holds lists.
C6_Witness ==
    \E p \in Slots1 :
        /\ task[p].op = "remove"
        /\ task[p].stage = "done"
        /\ task[p].outcome = NotFoundError
        /\ task[p].commit
        /\ task[p].id \in Range(allocated[task[p].kind])
        /\ policyLists[task[p].kind] # NoLists

\* C7: a remove with commit false of a registered ID succeeds at once,
\* takes exactly that list out of the store, and issues no install call:
\* the adapter's installed list is unchanged.
C7_RemoveWithoutCommit ==
    [][\A p \in Slots1 :
        (/\ RemoveStarts(p)
         /\ ~task'[p].commit
         /\ task'[p].id \in DOMAIN policyLists[task'[p].kind]) =>
            LET k == task'[p].kind
                id == task'[p].id
            IN /\ task'[p].stage = "done"
               /\ task'[p].outcome = "ok"
               /\ DOMAIN policyLists'[k] = DOMAIN policyLists[k] \ {id}
               /\ \A i \in DOMAIN policyLists'[k] :
                        policyLists'[k][i] = policyLists[k][i]
               /\ \A j \in eventKind \ {k} : policyLists'[j] = policyLists[j]
               /\ requests' = requests
               /\ installed' = installed]_vars

\* A remove without commit succeeded and the adapter still has the removed
\* list's rules installed.
C7_Witness ==
    \E p \in Slots1 :
        /\ task[p].op = "remove"
        /\ task[p].stage = "done"
        /\ task[p].outcome = "ok"
        /\ ~task[p].commit
        /\ task[p].id \in installedIds[task[p].kind]
        /\ installed[task[p].kind] #
                getMasterPolicyList(policyLists, task[p].kind)

\* C8: when the install call of a committing remove fails, the remove
\* returns that error, the removed list stays out of the store (no list once
\* gone comes back), and the adapter keeps the list it had installed.
C8_FailedCommitKeepsRemoval ==
    [][/\ \A p \in Slots1 :
            (RemoveSettles(p) /\ task[p].stage = "rejected") =>
                LET k == task[p].kind
                    id == task[p].id
                IN /\ task'[p].outcome = InstallError
                   /\ DOMAIN policyLists'[k] = DOMAIN task[p].pre \ {id}
                   /\ \A i \in DOMAIN policyLists'[k] :
                            policyLists'[k][i] = task[p].pre[i]
                   /\ installed'[k] = task[p].preInstalled
       /\ \A k \in eventKind :
            \A id \in Range(allocated[k]) :
                id \notin DOMAIN policyLists[k] =>
                    id \notin DOMAIN policyLists'[k]]_vars

\* A committing remove failed at the install call: the list is out of the
\* store and still installed in the adapter.
C8_Witness ==
    \E p \in Slots1 :
        /\ task[p].op = "remove"
        /\ task[p].stage = "done"
        /\ task[p].outcome = InstallError
        /\ task[p].id \notin DOMAIN policyLists[task[p].kind]
        /\ task[p].id \in installedIds[task[p].kind]
        /\ installed[task[p].kind] # <<>>

\* C9: an add whose install call fails returns the install error and no
\* list ID, also when the rollback removal throws or finds nothing to
\* remove.
C9_OriginalErrorReturned ==
    [][\A p \in Slots :
        AddFails(p) =>
            /\ task[p].err = InstallError
            /\ task'[p].outcome = task[p].err
            /\ task'[p].ret = 0]_vars

\* One failed add's rollback removal threw, another's found nothing to
\* remove; both returned the install error.
C9_Witness ==
    \E p, q \in Slots :
        /\ task[p].op = "add" /\ task[p].stage = "done"
        /\ task[p].rollback = "threw"
        /\ task[p].outcome = InstallError
        /\ task[q].op = "add" /\ task[q].stage = "done"
        /\ task[q].rollback = "missing"
        /\ task[q].outcome = InstallError

\* C10: when invocations run one at a time, after an add or a committing
\* remove that succeeded the list installed in the adapter is the kind's
\* master policy list.
C10_InstalledIsMaster ==
    \A p \in Slots1 :
        (/\ task[p].stage = "done"
         /\ task[p].outcome = "ok"
         /\ (task[p].op = "add" \/ (task[p].op = "remove" /\ task[p].commit)))
            => /\ installed[task[p].kind] =
                    getMasterPolicyList(policyLists, task[p].kind)
               /\ installedIds[task[p].kind] = DOMAIN policyLists[task[p].kind]

\* A committing remove succeeded in a kind that had two lists added: the
\* installed list is the master list of what is left, and has rules.
C10_Witness ==
    \E p \in Slots1 :
        /\ task[p].op = "remove"
        /\ task[p].stage = "done"
        /\ task[p].outcome = "ok"
        /\ task[p].commit
        /\ Len(allocated[task[p].kind]) >= 2
        /\ installed[task[p].kind] # <<>>


\* C11: a committing remove of a registered ID whose install call succeeds
\* leaves the list out of the store and out of the installed list, and the
\* installed list is the master list of the lists that remain; with keyboard
\* lists 1 = [ruleX] and 2 = [ruleY], removing 1 makes the master list
\* [ruleY].
C11_CommittedRemove ==
    [][\A p \in Slots1 :
        (RemoveSettles(p) /\ task[p].stage = "resolved") =>
            LET k == task[p].kind
                id == task[p].id
                m == getMasterPolicyList(policyLists', k)
            IN /\ task'[p].outcome = "ok"
               /\ DOMAIN policyLists'[k] = DOMAIN task[p].pre \ {id}
               /\ \A i \in DOMAIN policyLists'[k] :
                        policyLists'[k][i] = task[p].pre[i]
               /\ id \notin installedIds'[k]
               /\ installedIds'[k] = DOMAIN policyLists'[k]
               /\ installed'[k] = m
               /\ (/\ k = KEYBOARD
                   /\ id = 1
                   /\ DOMAIN task[p].pre = {1, 2}
                   /\ task[p].pre[1] = <<ruleX>>
                   /\ task[p].pre[2] = <<ruleY>>) => m = <<ruleY>>]_vars

\* Keyboard list 1 of the two lists [ruleX] and [ruleY] was removed with
\* commit: the master list and the installed list are [ruleY].
C11_Witness ==
    \E p \in Slots1 :
        /\ task[p].op = "remove"
        /\ task[p].stage = "done"
        /\ task[p].outcome = "ok"
        /\ task[p].commit
        /\ task[p].kind = KEYBOARD
        /\ task[p].id = 1
        /\ allocated[KEYBOARD] = <<1, 2>>
        /\ registered[KEYBOARD] = {[id |-> 2, rules |-> <<ruleY>>]}
        /\ getMasterPolicyList(policyLists, KEYBOARD) = <<ruleY>>
        /\ installed[KEYBOARD] = <<ruleY>>


KeydownStep(p) == command'[p] = "addKeydownPolicy" /\ task'[p] # task[p]

\* C13: addKeydownPolicy behaves as addPolicies on the keyboard kind with a
\* list of one key-down rule: its one install call is the keyboard one and
\* carries the keyboard master list with the rule at its end; when the call
\* succeeds it returns the new list's ID and the keyboard master list is the
\* one before it plus that rule at its end; when the call fails it returns
\* the install error and its rollback runs, which leaves the keyboard lists
\* as before the call unless the removal itself throws; no step of it
\* changes the pointer lists, the pointer counter or the installed pointer
\* list, or calls the pointer install function.
C13_KeydownIsKeyboardAdd ==
    [][\A p \in Slots1 :
        KeydownStep(p) =>
            LET t == task'[p]
                call == IF t.n = task[p].n THEN task[p] ELSE t
                policies == call.policies
                pre == call.pre
                before == ConcatAscending(pre, DOMAIN pre)
            IN /\ t.op = "add"
               /\ t.kind = KEYBOARD
               /\ Len(policies) = 1
               /\ policies[1].eventKind = KEY_DOWN
               /\ policyLists'[POINTER] = policyLists[POINTER]
               /\ policyListCounter'[POINTER] = policyListCounter[POINTER]
               /\ installed'[POINTER] = installed[POINTER]
               /\ installedIds'[POINTER] = installedIds[POINTER]
               /\ \A r \in requests' \ requests :
                    /\ r.p = p
                    /\ r.fn = setKeyboardEventPropagationPolicy
                    /\ r.list = before \o policies
               /\ (t.n # task[p].n) =>
                    Cardinality(requests' \ requests) = 1
               /\ AddSucceeds(p) =>
                    /\ t.outcome = "ok"
                    /\ t.ret = LastOf(allocated[KEYBOARD])
                    /\ t.ret \notin DOMAIN pre
                    /\ policyLists'[KEYBOARD] =
                         addPolicyList([k \in eventKind |-> pre], KEYBOARD,
                                       t.ret, policies)[KEYBOARD]
                    /\ getMasterPolicyList(policyLists', KEYBOARD) =
                         before \o policies
                    /\ installed'[KEYBOARD] = before \o policies
               /\ AddFails(p) =>
                    /\ t.outcome = InstallError
                    /\ t.ret = 0
                    /\ t.rollback \in {"removed", "threw"}
                    /\ (t.rollback = "removed") =>
                         policyLists'[KEYBOARD] = pre]_vars

\* addKeydownPolicy returned the ID of its list, which is not the first
\* keyboard list, and its rule is the last of the installed keyboard list.
C13_Witness ==
    \E p \in Slots1 :
        /\ command[p] = "addKeydownPolicy"
        /\ task[p].stage = "done"
        /\ task[p].outcome = "ok"
        /\ task[p].ret >= 2
        /\ Len(installed[KEYBOARD]) >= 2
        /\ [id |-> task[p].ret, rules |-> <<LastOf(installed[KEYBOARD])>>]
                \in registered[KEYBOARD]
        /\ LastOf(installed[KEYBOARD]).key \in KeydownKeys


\* p's latest invocation pushed a master list and the push succeeded.
Pushed(p) ==
    /\ task[p].stage = "done"
    /\ task[p].outcome = "ok"
    /\ (task[p].op = "add" \/ (task[p].op = "remove" /\ task[p].commit))

\* C14: the installed list can differ from the master list after operations
\* that all succeeded only when two of them overlapped: as long as no
\* invocation started while another one's install call was in flight, the
\* list installed after the latest successful add or committing remove is
\* the kind's master list; once two operations on one kind overlap, a state
\* is reachable where both have finished with success and the installed
\* list lacks a list the store holds, the stale push having landed last.
C14_DivergenceNeedsOverlap ==
    ~overlapped =>
        \A p \in Slots :
            (Pushed(p) /\ task[p].n = nops) =>
                /\ installed[task[p].kind] =
                        getMasterPolicyList(policyLists, task[p].kind)
                /\ installedIds[task[p].kind] =
                        DOMAIN policyLists[task[p].kind]

\* Two overlapping adds on one kind both succeeded and nothing is in
\* flight; the store holds both lists, the installed list only the first.
C14_Witness ==
    \E p, q \in Slots :
        LET k == task[p].kind
        IN /\ p # q
           /\ overlapped
           /\ Quiescent
           /\ requests = {}
           /\ Pushed(p) /\ task[p].op = "add"
           /\ Pushed(q) /\ task[q].op = "add"
           /\ task[q].kind = k
           /\ task[p].ret < task[q].ret
           /\ {task[p].ret, task[q].ret} \subseteq DOMAIN policyLists[k]
           /\ installedIds[k] = DOMAIN policyLists[k] \ {task[q].ret}
           /\ installed[k] # getMasterPolicyList(policyLists, k)


\* An install call for kind k is applied by the adapter in this step.
PushLands(k) ==
    \E r \in requests \ requests' :
        SinkOf(r.fn) = k /\ task'[r.p].stage = "resolved"

\* p's remove returns in the step that starts it, without an install call.
RemoveReturnsAtOnce(p) == RemoveStarts(p) /\ task'[p].stage = "done"

\* C15: a remove without commit leaves the installed list of its kind as it
\* was, still holding the removed list's rules; the installed list of a kind
\* changes only when an install call for that kind succeeds; and the list
\* such a call installs is the kind's master list, which holds none of the
\* lists removed without commit so far, so that the installed list equals
\* the master list again.
C15_LocalRemovalsPushedLater ==
    [][/\ \A p \in Slots1 :
            RemoveReturnsAtOnce(p) =>
                /\ installed' = installed
                /\ installedIds' = installedIds
                /\ requests' = requests
                /\ task'[p].outcome = "ok" =>
                    /\ ~task'[p].commit
                    /\ task'[p].id \in localOnly'[task'[p].kind]
                    /\ task'[p].id \notin DOMAIN policyLists'[task'[p].kind]
       /\ \A k \in eventKind :
            /\ (installed'[k] # installed[k]
                    \/ installedIds'[k] # installedIds[k]) => PushLands(k)
            /\ PushLands(k) =>
                /\ installed'[k] = getMasterPolicyList(policyLists', k)
                /\ installedIds'[k] = DOMAIN policyLists'[k]
                /\ installedIds'[k] \cap localOnly'[k] = {}]_vars

\* A list that was installed was removed without commit, and a later add
\* succeeded: the installed list is the master list, has rules, and holds
\* nothing of the removed list.
C15_Witness ==
    \E p \in Slots1 :
        LET k == task[p].kind
        IN /\ task[p].op = "add"
           /\ task[p].stage = "done"
           /\ task[p].outcome = "ok"
           /\ localOnly[k] # {}
           /\ localOnly[k] \cap phantom[k] = {}
           /\ localOnly[k] \cap installedIds[k] = {}
           /\ installed[k] = getMasterPolicyList(policyLists, k)
           /\ installed[k] # <<>>


\* The kind an exported action passes to _addPolicies or _removePolicies.
KindOf(name) ==
    IF name \in {"addKeyboardPolicies", "removeKeyboardPolicies",
                 "addKeydownPolicy"}
    THEN KEYBOARD ELSE POINTER

\* The install function that belongs to a kind.
InstallFnOf(k) ==
    IF k = KEYBOARD
    THEN setKeyboardEventPropagationPolicy
    ELSE setPointerEventPropagationPolicy

\* C16: every step of an add or a remove, from its start to its return with
\* success, with an error or after a rollback, leaves the other kind alone:
\* the other kind's lists, ID counter and installed list do not change, and
\* the only install function the operation calls, and the only one whose
\* call is settled for it, is the one of its own kind.
C16_OtherKindUntouched ==
    [][\A p \in Slots1 :
        (task'[p] # task[p]) =>
            LET own == KindOf(command'[p])
            IN /\ task'[p].kind = own
               /\ \A o \in eventKind \ {own} :
                    /\ policyLists'[o] = policyLists[o]
                    /\ policyListCounter'[o] = policyListCounter[o]
                    /\ installed'[o] = installed[o]
                    /\ installedIds'[o] = installedIds[o]
               /\ \A r \in (requests' \ requests) \cup (requests \ requests') :
                    r.p = p /\ r.fn = InstallFnOf(own)]_vars

\* A pointer add failed and was rolled back while the keyboard kind holds
\* lists that are installed: the pointer kind is empty again and the
\* keyboard kind is as it was.
C16_Witness ==
    \E p \in Slots1 :
        /\ command[p] = "addPointerPolicies"
        /\ task[p].stage = "done"
        /\ task[p].outcome = InstallError
        /\ task[p].rollback = "removed"
        /\ policyLists[POINTER] = NoLists
        /\ installed[POINTER] = <<>>
        /\ policyLists[KEYBOARD] # NoLists
        /\ installed[KEYBOARD] # <<>>
        /\ installed[KEYBOARD] = getMasterPolicyList(policyLists, KEYBOARD)


\* p starts an invocation in this step.
Starts(p) == task'[p].n # task[p].n

\* C17: an add, and a committing remove of a registered ID, changes the
\* store and then makes exactly one install call, whose list is the master
\* list of the store after the change: it holds the added list at its end,
\* respectively nothing of the removed list; no other step makes an install
\* call, so a call that failed is not made again.
C17_OnePushAfterMutation ==
    [][/\ \A p \in Slots1 :
            (Starts(p) /\ task'[p].stage = "pending") =>
                LET t == task'[p]
                    k == t.kind
                IN /\ policyLists'[k] # policyLists[k]
                   /\ Cardinality(requests' \ requests) = 1
                   /\ \A r \in requests' \ requests :
                        /\ r.p = p
                        /\ r.list = getMasterPolicyList(policyLists', k)
                        /\ r.ids = DOMAIN policyLists'[k]
                        /\ t.op = "add" =>
                            /\ t.id \in r.ids
                            /\ t.id \notin DOMAIN policyLists[k]
                            /\ policyLists'[k][t.id] = t.policies
                            /\ r.list = getMasterPolicyList(policyLists, k)
                                            \o t.policies
                        /\ t.op = "remove" =>
                            /\ t.commit
                            /\ t.id \in DOMAIN policyLists[k]
                            /\ t.id \notin r.ids
                            /\ r.list = ConcatAscending(policyLists[k],
                                            DOMAIN policyLists[k] \ {t.id})
       /\ (\A p \in Slots1 : ~Starts(p)) => requests' \subseteq requests
       /\ \A p \in Slots1 :
            Cardinality({r \in requests' : r.p = p}) <= 1]_vars

\* An add's install call failed and the add returned the error: no install
\* call is in flight, and the installed list is the one from before the
\* add, which has rules.
C17_Witness ==
    \E p \in Slots1 :
        /\ task[p].op = "add"
        /\ task[p].stage = "done"
        /\ task[p].outcome = InstallError
        /\ requests = {}
        /\ installed[task[p].kind] # <<>>
        /\ task[p].id \notin installedIds[task[p].kind]


\* C18: the rollback of a failed add takes out of the store the list with
\* the ID this add allocated, when it is there and the removal does not
\* throw, and nothing else, whatever other invocations did in between:
\* every other list of the kind keeps its ID and rules, no list comes back
\* that was not in the store before the rollback, in particular none that
\* was removed without commit, and the other kind's lists do not change.
C18_RollbackRemovesOwnListOnly ==
    [][\A p \in Slots :
        AddFails(p) =>
            LET k == task[p].kind
                id == task[p].id
                old == policyLists[k]
                new == policyLists'[k]
            IN /\ \A i \in DOMAIN old \ {id} :
                    i \in DOMAIN new /\ new[i] = old[i]
               /\ DOMAIN new \subseteq DOMAIN old
               /\ (task'[p].rollback = "removed") <=>
                    (id \in DOMAIN old /\ id \notin DOMAIN new)
               /\ (task'[p].rollback = "missing") => id \notin DOMAIN old
               /\ (task'[p].rollback = "threw") => new = old
               /\ localOnly'[k] \cap DOMAIN new = {}
               /\ \A o \in eventKind \ {k} : policyLists'[o] = policyLists[o]
               /\ policyListCounter' = policyListCounter]_vars

\* An add failed and its rollback removed its list, while another add on the
\* same kind, started during the first, allocated a higher ID and succeeded;
\* the store still holds that list, with its rules.
C18_Witness ==
    \E p, q \in Slots :
        LET k == task[p].kind
        IN /\ p # q
           /\ overlapped
           /\ task[p].op = "add"
           /\ task[p].stage = "done"
           /\ task[p].outcome = InstallError
           /\ task[p].rollback = "removed"
           /\ Pushed(q) /\ task[q].op = "add" /\ task[q].kind = k
           /\ task[q].n = task[p].n + 1
           /\ task[q].ret > task[p].id
           /\ task[p].id \notin DOMAIN policyLists[k]
           /\ \E e \in registered[k] :
                /\ e.id = task[q].ret
                /\ e.id \in DOMAIN policyLists[k]
                /\ policyLists[k][e.id] = e.rules
                /\ e.rules # <<>>


InFlight(p) == task[p].stage \in {"pending", "resolved", "rejected"}

Completed(p) ==
    /\ task[p].stage = "done"
    /\ task[p].outcome \in {"ok", InstallError, NotFoundError}

\* C19: when every install call is settled in the end, every add and every
\* remove that waits for one returns in the end, with success or with an
\* error; and a remove without commit, or of an ID that is not registered,
\* returns in the step that starts it, without an install call.
C19_EveryOperationCompletes ==
    /\ \A p \in Slots1 : InFlight(p) ~> Completed(p)
    /\ [][\A p \in Slots1 :
            Starts(p) =>
                /\ InFlight(p)' \/ Completed(p)'
                /\ (/\ task'[p].op = "remove"
                    /\ \/ ~task'[p].commit
                       \/ task'[p].id \notin DOMAIN policyLists[task'[p].kind])
                    => /\ Completed(p)'
                       /\ requests' = requests
                       /\ task'[p].outcome =
                            IF task'[p].id \in
                                    DOMAIN policyLists[task'[p].kind]
                            THEN "ok" ELSE NotFoundError]_vars

\* A committing remove waited for its install call, the call failed, and
\* the remove returned the install error.
C19_Witness ==
    \E p \in Slots1 :
        /\ task[p].op = "remove"
        /\ task[p].commit
        /\ Completed(p)
        /\ task[p].outcome = InstallError
        /\ requests = {}

====
